---- MODULE Spec2Model ----
(***************************************************************************)
(* A model of the 32-bit CPU emulator of cpu.c: the program loader, the    *)
(* machine state (struct cpu), the 26 instruction handlers, the dispatch   *)
(* table, cpu_step and cpu_run.  Memory is an array of signed 32-bit words *)
(* indexed from 0; the stack lives at the top of the array and grows       *)
(* downwards from stack_bottom.                                            *)
(***************************************************************************)
EXTENDS Integers, Sequences, FiniteSets, TLC

(***************************************************************************)
(* Bounds of the model.                                                    *)
(***************************************************************************)
\* Largest stack capacity a machine is created with (capacities 0..MaxCap).
MaxCap == 2
\* Largest number of cpu_step calls made on one machine over its life.
MaxSteps == 6
\* Bytes of one allocation block.  cpu.c uses 4096; the model scales the
\* block down so that a whole memory image fits in a state.  The layout
\* arithmetic (block-aligned size, stack at the top) is that of the code.
BlockBytes == 192

(***************************************************************************)
(* Machine words.                                                          *)
(***************************************************************************)
sizeof_int32 == 4
INT32_MAX == 2147483647
EOF == -1

\* Words are int32_t.  The model's integers are 32-bit too, and an operation
\* whose result leaves the int32_t range stops the model checker with an
\* error instead of yielding a value, so no overflow passes unnoticed.

\* Conversion of an int32_t to uint32_t.  The value 2^32-1 does not fit a
\* model integer, so a uint32_t is kept as its top bit and its low 31 bits.
ToUint32(x) ==
    IF x < 0 THEN [top |-> 1, low |-> (x + INT32_MAX) + 1]
    ELSE [top |-> 0, low |-> x]

\* Conversion of a uint32_t back to int32_t (two's complement).
ToInt32(u) == IF u.top = 1 THEN (u.low - INT32_MAX) - 1 ELSE u.low

\* C's integer division truncates toward zero; \div rounds toward -infinity.
Abs(x) == IF x < 0 THEN -x ELSE x
TruncDiv(a, b) ==
    LET q == Abs(a) \div Abs(b)
    IN IF (a < 0) = (b < 0) THEN q ELSE -q

\* enum cpu_register
REGISTER_A == 0
REGISTER_B == 1
REGISTER_C == 2
REGISTER_D == 3
REGISTER_RESULT == 4
Registers == REGISTER_A .. REGISTER_RESULT

\* enum cpu_status
CPU_OK == "CPU_OK"
CPU_HALTED == "CPU_HALTED"
CPU_ILLEGAL_INSTRUCTION == "CPU_ILLEGAL_INSTRUCTION"
CPU_ILLEGAL_OPERAND == "CPU_ILLEGAL_OPERAND"
CPU_DIV_BY_ZERO == "CPU_DIV_BY_ZERO"
CPU_INVALID_ADDRESS == "CPU_INVALID_ADDRESS"
CPU_INVALID_STACK_OPERATION == "CPU_INVALID_STACK_OPERATION"
CPU_IO_ERROR == "CPU_IO_ERROR"
ErrorStatuses ==
    { CPU_ILLEGAL_INSTRUCTION, CPU_ILLEGAL_OPERAND, CPU_DIV_BY_ZERO,
      CPU_INVALID_ADDRESS, CPU_INVALID_STACK_OPERATION, CPU_IO_ERROR }

(***************************************************************************)
(* The program loader, cpu_create_memory.                                  *)
(*                                                                         *)
(* `program` is the byte stream of the file, `fill` the value that every   *)
(* word of freshly allocated (malloc/realloc) storage happens to hold.     *)
(* The result is [outcome, memory, stack_bottom]; memory is a function on  *)
(* 0 .. memory_size-1 and stack_bottom an index into it.                   *)
(***************************************************************************)
BLOCK_SIZE == BlockBytes \div sizeof_int32

\* The word the reading loop stores at memory[j]: the four bytes from
\* position 4j+1 of the stream, packed by result |= (ch << (cycle_index * 8))
\* for cycle_index 0, 1, 2, 3.  The bits each byte sets were clear, so the
\* three low bytes add up; bit 7 of the fourth byte is the top bit of the
\* word and its other bits are bits 24..30.
PackWord(program, j) ==
    LET b0 == program[4 * j + 1]
        b1 == program[4 * j + 2]
        b2 == program[4 * j + 3]
        b3 == program[4 * j + 4]
    IN ToInt32([top |-> b3 \div 128,
                low |-> b0 + b1 * 256 + b2 * 65536 + (b3 % 128) * 16777216])

\* The reading loop runs once per byte and stores a word after every fourth
\* byte: memory_index and cycle_index when the stream ends.
WordsRead(program) == Len(program) \div 4
BytesLeftOver(program) == Len(program) % 4

\* The loop grows the buffer by one block each time a byte arrives while
\* memory_index = memory_size, that is once per byte at stream position
\* 4 * BLOCK_SIZE * k + 1, k >= 1: memory_size when the stream ends.
SizeAfterRead(program) ==
    IF Len(program) = 0 THEN BLOCK_SIZE
    ELSE BLOCK_SIZE * (1 + (Len(program) - 1) \div (4 * BLOCK_SIZE))

\* The second loop: grow by one block until the stack fits behind the program.
RECURSIVE StackLoop(_, _, _)
StackLoop(memory_size, memory_index, stack_capacity) ==
    IF memory_index + stack_capacity > memory_size
    THEN StackLoop(memory_size + BLOCK_SIZE, memory_index, stack_capacity)
    ELSE memory_size

\* memset(memory + memory_index, 0, memory_size - memory_index * sizeof(int32_t)):
\* the length is a number of BYTES computed from a number of words, so only
\* the words the byte count covers completely are known to be zero.
ZeroedWords(memory_size, memory_index) ==
    (memory_size - memory_index * sizeof_int32) \div sizeof_int32

\* outcome: "ok", the buffer is returned; "abort", assert(cycle_index == 0)
\* fails; "overrun", the memset length is negative as a number and huge as
\* a size_t.  malloc and realloc leave new storage indeterminate (fill).
cpu_create_memory(program, stack_capacity, fill) ==
    LET memory_index == WordsRead(program)
        memory_size == StackLoop(SizeAfterRead(program), memory_index, stack_capacity)
        zeroed == ZeroedWords(memory_size, memory_index)
    IN IF BytesLeftOver(program) # 0
       THEN [outcome |-> "abort", memory |-> << >>, stack_bottom |-> 0]
       ELSE IF memory_size - memory_index * sizeof_int32 < 0
       THEN [outcome |-> "overrun", memory |-> << >>, stack_bottom |-> 0]
       ELSE [outcome |-> "ok",
             memory |-> [i \in 0 .. (memory_size - 1) |->
                            IF i < memory_index THEN PackWord(program, i)
                            ELSE IF i < memory_index + zeroed THEN 0
                            ELSE fill],
             stack_bottom |-> memory_size - 1]

(***************************************************************************)
(* The machine.  A "world" w is what one call into cpu.c can read or       *)
(* change: w.cpu is struct cpu (memory included), w.stdin and w.stdout are *)
(* the standard streams as byte sequences, w.oob is the value a read past  *)
(* the end of the memory buffer yields during this call, and w.hist is the *)
(* record of the last instructions executed (history, not program state).  *)
(***************************************************************************)
cpu_create(memory, stack_bottom, stack_capacity) ==
    [memory |-> memory,
     stack_bottom |-> stack_bottom,
     stack_capacity |-> stack_capacity,
     inst_index |-> 0,
     status |-> CPU_OK,
     registers |-> [r \in Registers |-> 0],
     stack_size |-> 0,
     end_of_stack |-> (stack_bottom - stack_capacity) - 0,
     memory_size |-> (stack_bottom - 0) * sizeof_int32 + sizeof_int32]

\* cpu->memory[i] as an rvalue.
Mem(w, i) == IF i \in DOMAIN w.cpu.memory THEN w.cpu.memory[i] ELSE w.oob

\* cpu->stack_bottom[-k] as an rvalue and as an lvalue.
StackSlot(c, k) == c.memory[c.stack_bottom - k]
SetStackSlot(w, k, v) == [w EXCEPT !.cpu.memory[w.cpu.stack_bottom - k] = v]

cpu_set_register(w, reg, value) == [w EXCEPT !.cpu.registers[reg] = value]
cpu_get_register(w, reg) == w.cpu.registers[reg]
cpu_get_stack_size(w) == w.cpu.stack_size
cpu_get_status(w) == w.cpu.status

\* What a handler hands back: the world it leaves and its return value.
Done(w, rv) == [w |-> w, rv |-> rv]
SetStatus(w, st) == [w EXCEPT !.cpu.status = st]
Advance(w, n) == [w EXCEPT !.cpu.inst_index = (@ + n)]

\* is_valid_reg sets the status on an invalid index; the callers return 0.
is_valid_reg(reg) == ~(reg < 0 \/ reg > 4)
InvalidReg(w) == Done(SetStatus(w, CPU_ILLEGAL_OPERAND), 0)

execute_nop(w) == Done(SetStatus(w, CPU_OK), 1)

execute_halt(w) == Done(SetStatus(w, CPU_HALTED), 0)

\* ADD, SUB, MUL: A = A op reg; Result = A.
ArithOp(op, a, b) ==
    CASE op = "+" -> a + b
      [] op = "-" -> a - b
      [] op = "*" -> a * b

Arith(w, op) ==
    LET reg == Mem(w, w.cpu.inst_index + 1)
        w1 == Advance(w, 1)
    IN IF ~is_valid_reg(reg) THEN InvalidReg(w1)
       ELSE LET a == (ArithOp(op, w1.cpu.registers[REGISTER_A], w1.cpu.registers[reg]))
            IN Done(SetStatus([w1 EXCEPT !.cpu.registers[REGISTER_A] = a,
                                         !.cpu.registers[4] = a],
                              CPU_OK), 1)

execute_add(w) == Arith(w, "+")
execute_sub(w) == Arith(w, "-")
execute_mul(w) == Arith(w, "*")

\* execute_div reporting a zero divisor as an illegal operand.
execute_div_WrongStatus(w) ==
    LET reg_to_div == Mem(w, w.cpu.inst_index + 1)
        w1 == Advance(w, 1)
    IN IF ~is_valid_reg(reg_to_div) THEN InvalidReg(w1)
       ELSE IF w1.cpu.registers[reg_to_div] = 0
       THEN Done(SetStatus(w1, CPU_ILLEGAL_OPERAND), 0)
       ELSE LET a == (TruncDiv(w1.cpu.registers[REGISTER_A],
                                      w1.cpu.registers[reg_to_div]))
            IN Done(SetStatus([w1 EXCEPT !.cpu.registers[REGISTER_A] = a,
                                         !.cpu.registers[4] = a],
                              CPU_OK), 1)

execute_div(w) ==
    LET reg_to_div == Mem(w, w.cpu.inst_index + 1)
        w1 == Advance(w, 1)
    IN IF ~is_valid_reg(reg_to_div) THEN InvalidReg(w1)
       ELSE IF w1.cpu.registers[reg_to_div] = 0
       THEN Done(SetStatus(w1, CPU_DIV_BY_ZERO), 0)
       ELSE LET a == (TruncDiv(w1.cpu.registers[REGISTER_A],
                                      w1.cpu.registers[reg_to_div]))
            IN Done(SetStatus([w1 EXCEPT !.cpu.registers[REGISTER_A] = a,
                                         !.cpu.registers[4] = a],
                              CPU_OK), 1)

\* INC, DEC: reg += d; Result = reg.
IncDec(w, d) ==
    LET reg_input == Mem(w, w.cpu.inst_index + 1)
        w1 == Advance(w, 1)
    IN IF ~is_valid_reg(reg_input) THEN InvalidReg(w1)
       ELSE LET v == (w1.cpu.registers[reg_input] + d)
                w2 == [w1 EXCEPT !.cpu.registers[reg_input] = v]
            IN Done(SetStatus([w2 EXCEPT !.cpu.registers[4] = v], CPU_OK), 1)

execute_inc(w) == IncDec(w, 1)
execute_dec(w) == IncDec(w, -1)

execute_loop(w) ==
    LET index_to_jump == Mem(w, w.cpu.inst_index + 1)
        w1 == Advance(w, 1)
        w2 == IF w1.cpu.registers[2] # 0
              THEN [w1 EXCEPT !.cpu.inst_index = (index_to_jump - 1)]
              ELSE w1
    IN Done(SetStatus(w2, CPU_OK), 1)

execute_movr(w) ==
    LET to_reg == Mem(w, w.cpu.inst_index + 1)
        num == ToUint32(Mem(w, w.cpu.inst_index + 2))
        w1 == Advance(w, 2)
    IN IF ~is_valid_reg(to_reg) THEN InvalidReg(w1)
       ELSE Done(SetStatus(cpu_set_register(w1, to_reg, ToInt32(num)), CPU_OK), 1)

(***************************************************************************)
(* Standard input and output.  A stream is a sequence of bytes (0..255).   *)
(***************************************************************************)
IsSpace(ch) == ch \in {9, 10, 11, 12, 13, 32}
IsDigit(ch) == ch >= 48 /\ ch <= 57

RECURSIVE SkipSpace(_)
SkipSpace(s) == IF s # << >> /\ IsSpace(Head(s)) THEN SkipSpace(Tail(s)) ELSE s

RECURSIVE TakeDigits(_, _)
TakeDigits(s, acc) ==
    IF s # << >> /\ IsDigit(Head(s))
    THEN TakeDigits(Tail(s), acc * 10 + (Head(s) - 48))
    ELSE [value |-> acc, rest |-> s]

\* scanf("%d", &input): [n |-> the return value, value, rest |-> the stream
\* left].  White space is skipped, then an optional sign and at least one
\* digit are read; the first byte that does not fit stays in the stream.
ScanInt(s) ==
    LET s1 == SkipSpace(s)
        signed == s1 # << >> /\ Head(s1) \in {43, 45}
        s2 == IF signed THEN Tail(s1) ELSE s1
        d == TakeDigits(s2, 0)
    IN IF s1 = << >> THEN [n |-> EOF, value |-> 0, rest |-> s1]
       ELSE IF s2 = << >> THEN [n |-> EOF, value |-> 0, rest |-> s2]
       ELSE IF ~IsDigit(Head(s2)) THEN [n |-> 0, value |-> 0, rest |-> s2]
       ELSE [n |-> 1,
             value |-> (IF signed /\ Head(s1) = 45 THEN -d.value ELSE d.value),
             rest |-> d.rest]

\* getchar(): [ch |-> the byte or EOF, rest].
GetChar(s) ==
    IF s = << >> THEN [ch |-> EOF, rest |-> s]
    ELSE [ch |-> Head(s), rest |-> Tail(s)]

\* printf("%d", v): the decimal digits of v, with a minus sign if negative.
RECURSIVE Digits(_)
Digits(n) == IF n < 10 THEN << 48 + n >> ELSE Digits(n \div 10) \o << 48 + (n % 10) >>
FormatInt(v) == IF v < 0 THEN << 45 >> \o Digits(-v) ELSE Digits(v)

\* printf("%c", v): the one byte (unsigned char) v.
FormatChar(v) == << v % 256 >>

\* execute_in advancing over its operand before it validates the register,
\* as the other handlers do.
execute_in_AdvanceFirst(w) ==
    LET reg_to_add == Mem(w, w.cpu.inst_index + 1)
        w1 == Advance(w, 1)
    IN IF ~is_valid_reg(reg_to_add) THEN InvalidReg(w1)
       ELSE LET sc == ScanInt(w1.stdin)
                w2 == [w1 EXCEPT !.stdin = sc.rest]
            IN IF sc.n # 1 THEN Done(SetStatus(w2, CPU_IO_ERROR), 0)
               ELSE Done(cpu_set_register(w2, reg_to_add, sc.value), 1)

execute_in(w) ==
    LET reg_to_add == Mem(w, w.cpu.inst_index + 1)
    IN IF ~is_valid_reg(reg_to_add) THEN InvalidReg(w)
       ELSE LET w1 == Advance(w, 1)
                sc == ScanInt(w1.stdin)
                w2 == [w1 EXCEPT !.stdin = sc.rest]
            IN IF sc.n # 1 THEN Done(SetStatus(w2, CPU_IO_ERROR), 0)
               ELSE Done(cpu_set_register(w2, reg_to_add, sc.value), 1)

\* execute_get without the store of 0 to register C at end of input.
execute_get_NoFlag(w) ==
    LET reg_to_input == Mem(w, w.cpu.inst_index + 1)
        w1 == Advance(w, 1)
    IN IF ~is_valid_reg(reg_to_input) THEN InvalidReg(w1)
       ELSE LET gc == GetChar(w1.stdin)
                w2 == [w1 EXCEPT !.stdin = gc.rest]
            IN IF gc.ch = EOF
               THEN Done(SetStatus(cpu_set_register(w2, reg_to_input, -1), CPU_OK), 1)
               ELSE Done(SetStatus(cpu_set_register(w2, reg_to_input, gc.ch), CPU_OK), 1)

execute_get(w) ==
    LET reg_to_input == Mem(w, w.cpu.inst_index + 1)
        w1 == Advance(w, 1)
    IN IF ~is_valid_reg(reg_to_input) THEN InvalidReg(w1)
       ELSE LET gc == GetChar(w1.stdin)
                w2 == [w1 EXCEPT !.stdin = gc.rest]
            IN IF gc.ch = EOF
               THEN Done(SetStatus(cpu_set_register(cpu_set_register(w2, REGISTER_C, 0),
                                                    reg_to_input, -1),
                                   CPU_OK), 1)
               ELSE Done(SetStatus(cpu_set_register(w2, reg_to_input, gc.ch), CPU_OK), 1)

execute_out(w) ==
    LET reg_to_print == Mem(w, w.cpu.inst_index + 1)
        w1 == Advance(w, 1)
    IN IF ~is_valid_reg(reg_to_print) THEN InvalidReg(w1)
       ELSE Done(SetStatus([w1 EXCEPT !.stdout = @ \o FormatInt(w1.cpu.registers[reg_to_print])],
                           CPU_OK), 1)

execute_put(w) ==
    LET reg_index == Mem(w, w.cpu.inst_index + 1)
        w1 == Advance(w, 1)
    IN IF ~is_valid_reg(reg_index) THEN InvalidReg(w1)
       ELSE LET reg_value == w1.cpu.registers[reg_index]
            IN IF reg_value < 0 \/ reg_value > 255
               THEN Done(SetStatus(w1, CPU_ILLEGAL_OPERAND), 0)
               ELSE Done(SetStatus([w1 EXCEPT !.stdout = @ \o FormatChar(reg_value)],
                                   CPU_OK), 1)

execute_swap(w) ==
    LET reg_index_1 == Mem(w, w.cpu.inst_index + 1)
        reg_index_2 == Mem(w, w.cpu.inst_index + 2)
        w1 == Advance(w, 2)
    IN IF ~is_valid_reg(reg_index_1) \/ ~is_valid_reg(reg_index_2) THEN InvalidReg(w1)
       ELSE LET temp == w1.cpu.registers[reg_index_1]
                w2 == [w1 EXCEPT !.cpu.registers[reg_index_1] = w1.cpu.registers[reg_index_2]]
            IN Done(SetStatus([w2 EXCEPT !.cpu.registers[reg_index_2] = temp], CPU_OK), 1)

(***************************************************************************)
(* The stack instructions.  Slot k of the stack is stack_bottom[-k]; the   *)
(* occupied slots are 0 .. stack_size-1.                                   *)
(***************************************************************************)
\* execute_load with the slot index one too high (the - 1 left out).
execute_load_OffByOne(w) ==
    LET reg_index == Mem(w, w.cpu.inst_index + 1)
        num == Mem(w, w.cpu.inst_index + 2)
        w1 == Advance(w, 2)
        end == cpu_get_stack_size(w1)
        offset == (w1.cpu.registers[REGISTER_D] + num)
        stack_index == (end - offset)
    IN IF ~is_valid_reg(reg_index) THEN InvalidReg(w1)
       ELSE IF offset < 0 THEN Done(SetStatus(w1, CPU_INVALID_STACK_OPERATION), 0)
       ELSE IF stack_index > end \/ stack_index < 0 \/ end = 0
       THEN Done(SetStatus(w1, CPU_INVALID_STACK_OPERATION), 0)
       ELSE Done(SetStatus(cpu_set_register(w1, reg_index, StackSlot(w1.cpu, stack_index)),
                           CPU_OK), 1)

execute_load(w) ==
    LET reg_index == Mem(w, w.cpu.inst_index + 1)
        num == Mem(w, w.cpu.inst_index + 2)
        w1 == Advance(w, 2)
        end == cpu_get_stack_size(w1)
        offset == (w1.cpu.registers[REGISTER_D] + num)
        stack_index == ((end - offset) - 1)
    IN IF ~is_valid_reg(reg_index) THEN InvalidReg(w1)
       ELSE IF offset < 0 THEN Done(SetStatus(w1, CPU_INVALID_STACK_OPERATION), 0)
       ELSE IF stack_index > end \/ stack_index < 0 \/ end = 0
       THEN Done(SetStatus(w1, CPU_INVALID_STACK_OPERATION), 0)
       ELSE Done(SetStatus(cpu_set_register(w1, reg_index, StackSlot(w1.cpu, stack_index)),
                           CPU_OK), 1)

execute_store(w) ==
    LET reg_index == Mem(w, w.cpu.inst_index + 1)
        num == Mem(w, w.cpu.inst_index + 2)
        w1 == Advance(w, 2)
        end == cpu_get_stack_size(w1)
        stack_index == (((end - w1.cpu.registers[REGISTER_D]) - num) - 1)
    IN IF ~is_valid_reg(reg_index) THEN InvalidReg(w1)
       ELSE IF (w1.cpu.registers[REGISTER_D] + num) < 0
       THEN Done(SetStatus(w1, CPU_INVALID_STACK_OPERATION), 0)
       ELSE IF stack_index > end \/ stack_index < 0 \/ end = 0
       THEN Done(SetStatus(w1, CPU_INVALID_STACK_OPERATION), 0)
       ELSE Done(SetStatus(SetStackSlot(w1, stack_index, cpu_get_register(w1, reg_index)),
                           CPU_OK), 1)

\* execute_push with the capacity test off by one (> for >=).
execute_push_OffByOne(w) ==
    LET reg_index == Mem(w, w.cpu.inst_index + 1)
        w1 == Advance(w, 1)
        capacity == (w1.cpu.stack_capacity)
    IN IF ~is_valid_reg(reg_index) THEN InvalidReg(w1)
       ELSE IF cpu_get_stack_size(w1) > capacity
       THEN Done(SetStatus(w1, CPU_INVALID_STACK_OPERATION), 0)
       ELSE LET reg_value == w1.cpu.registers[reg_index]
                w2 == SetStackSlot(w1, cpu_get_stack_size(w1), reg_value)
            IN Done(SetStatus([w2 EXCEPT !.cpu.stack_size = @ + 1], CPU_OK), 1)

\* execute_push storing the value before it tests the capacity.
execute_push_StoreFirst(w) ==
    LET reg_index == Mem(w, w.cpu.inst_index + 1)
        w1 == Advance(w, 1)
        capacity == (w1.cpu.stack_capacity)
    IN IF ~is_valid_reg(reg_index) THEN InvalidReg(w1)
       ELSE LET reg_value == w1.cpu.registers[reg_index]
                w2 == SetStackSlot(w1, cpu_get_stack_size(w1), reg_value)
            IN IF cpu_get_stack_size(w1) >= capacity
               THEN Done(SetStatus(w2, CPU_INVALID_STACK_OPERATION), 0)
               ELSE Done(SetStatus([w2 EXCEPT !.cpu.stack_size = @ + 1], CPU_OK), 1)

execute_push(w) ==
    LET reg_index == Mem(w, w.cpu.inst_index + 1)
        w1 == Advance(w, 1)
        capacity == (w1.cpu.stack_capacity)
    IN IF ~is_valid_reg(reg_index) THEN InvalidReg(w1)
       ELSE IF cpu_get_stack_size(w1) >= capacity
       THEN Done(SetStatus(w1, CPU_INVALID_STACK_OPERATION), 0)
       ELSE LET reg_value == w1.cpu.registers[reg_index]
                w2 == SetStackSlot(w1, cpu_get_stack_size(w1), reg_value)
            IN Done(SetStatus([w2 EXCEPT !.cpu.stack_size = @ + 1], CPU_OK), 1)

\* execute_pop without the store that zeroes the vacated slot.
execute_pop_SlotNotZeroed(w) ==
    LET reg_index == Mem(w, w.cpu.inst_index + 1)
        w1 == Advance(w, 1)
    IN IF ~is_valid_reg(reg_index) THEN InvalidReg(w1)
       ELSE IF cpu_get_stack_size(w1) <= 0
       THEN Done(SetStatus(w1, CPU_INVALID_STACK_OPERATION), 0)
       ELSE LET top == cpu_get_stack_size(w1) - 1
                w2 == cpu_set_register(w1, reg_index, StackSlot(w1.cpu, top))
            IN Done(SetStatus([w2 EXCEPT !.cpu.stack_size = @ - 1], CPU_OK), 1)

execute_pop(w) ==
    LET reg_index == Mem(w, w.cpu.inst_index + 1)
        w1 == Advance(w, 1)
    IN IF ~is_valid_reg(reg_index) THEN InvalidReg(w1)
       ELSE IF cpu_get_stack_size(w1) <= 0
       THEN Done(SetStatus(w1, CPU_INVALID_STACK_OPERATION), 0)
       ELSE LET top == cpu_get_stack_size(w1) - 1
                w2 == cpu_set_register(w1, reg_index, StackSlot(w1.cpu, top))
                w3 == SetStackSlot(w2, top, 0)
            IN Done(SetStatus([w3 EXCEPT !.cpu.stack_size = @ - 1], CPU_OK), 1)

\* execute_call with the capacity test off by one (> for >=).
execute_call_OffByOne(w) ==
    LET index_to_jump == Mem(w, w.cpu.inst_index + 1)
        index_to_save == Mem(w, w.cpu.inst_index + 2)
        w1 == Advance(w, 2)
        stack_capac == (w1.cpu.stack_capacity)
    IN IF cpu_get_stack_size(w1) > stack_capac
       THEN Done(SetStatus(w1, CPU_INVALID_STACK_OPERATION), 0)
       ELSE LET w2 == SetStackSlot(w1, cpu_get_stack_size(w1), index_to_save)
                w3 == SetStatus([w2 EXCEPT !.cpu.stack_size = @ + 1], CPU_OK)
            IN Done([w3 EXCEPT !.cpu.inst_index = (index_to_jump - 1)], 1)

execute_call(w) ==
    LET index_to_jump == Mem(w, w.cpu.inst_index + 1)
        index_to_save == Mem(w, w.cpu.inst_index + 2)
        w1 == Advance(w, 2)
        stack_capac == (w1.cpu.stack_capacity)
    IN IF cpu_get_stack_size(w1) >= stack_capac
       THEN Done(SetStatus(w1, CPU_INVALID_STACK_OPERATION), 0)
       ELSE LET w2 == SetStackSlot(w1, cpu_get_stack_size(w1), index_to_save)
                w3 == SetStatus([w2 EXCEPT !.cpu.stack_size = @ + 1], CPU_OK)
            IN Done([w3 EXCEPT !.cpu.inst_index = (index_to_jump - 1)], 1)

\* execute_ret jumping to the saved address without the - 1 that makes up
\* for the increment of cpu_step.
execute_ret_NoMinusOne(w) ==
    IF cpu_get_stack_size(w) = 0
    THEN Done(SetStatus(w, CPU_INVALID_STACK_OPERATION), 0)
    ELSE LET top == cpu_get_stack_size(w) - 1
             ind_to_jump == StackSlot(w.cpu, top)
             w1 == SetStackSlot(w, top, 0)
             w2 == [w1 EXCEPT !.cpu.inst_index = ind_to_jump]
         IN Done(SetStatus([w2 EXCEPT !.cpu.stack_size = @ - 1], CPU_OK), 1)

execute_ret(w) ==
    IF cpu_get_stack_size(w) = 0
    THEN Done(SetStatus(w, CPU_INVALID_STACK_OPERATION), 0)
    ELSE LET top == cpu_get_stack_size(w) - 1
             ind_to_jump == StackSlot(w.cpu, top)
             w1 == SetStackSlot(w, top, 0)
             w2 == [w1 EXCEPT !.cpu.inst_index = (ind_to_jump - 1)]
         IN Done(SetStatus([w2 EXCEPT !.cpu.stack_size = @ - 1], CPU_OK), 1)

(***************************************************************************)
(* Compare and jumps.                                                      *)
(***************************************************************************)
execute_cmp(w) ==
    LET reg_index_1 == Mem(w, w.cpu.inst_index + 1)
        reg_index_2 == Mem(w, w.cpu.inst_index + 2)
        w1 == Advance(w, 2)
    IN IF ~is_valid_reg(reg_index_1) \/ ~is_valid_reg(reg_index_2) THEN InvalidReg(w1)
       ELSE LET result == (w1.cpu.registers[reg_index_1] - w1.cpu.registers[reg_index_2])
            IN Done(SetStatus([w1 EXCEPT !.cpu.registers[4] = result], CPU_OK), 1)

\* execute_jmp without the - 1 that makes up for the increment of cpu_step.
execute_jmp_NoMinusOne(w) ==
    LET index_to_jump == Mem(w, w.cpu.inst_index + 1)
    IN Done(SetStatus([w EXCEPT !.cpu.inst_index = index_to_jump], CPU_OK), 1)

execute_jmp(w) ==
    LET index_to_jump == Mem(w, w.cpu.inst_index + 1)
    IN Done(SetStatus([w EXCEPT !.cpu.inst_index = (index_to_jump - 1)], CPU_OK), 1)

\* JZ, JNZ, JGT: jump when the Result register satisfies the condition.
\* These three leave the status alone.
CondJump(w, taken) ==
    LET index_to_jump == Mem(w, w.cpu.inst_index + 1)
        w1 == Advance(w, 1)
    IN IF taken
       THEN Done([w1 EXCEPT !.cpu.inst_index = (index_to_jump - 1)], 1)
       ELSE Done(w1, 1)

execute_jz(w) == CondJump(w, w.cpu.registers[4] = 0)
execute_jnz(w) == CondJump(w, w.cpu.registers[4] # 0)
execute_jgt(w) == CondJump(w, w.cpu.registers[4] > 0)

(***************************************************************************)
(* The dispatch table, in the order of the array `instructions`.           *)
(***************************************************************************)
instructions ==
    << [opcode |-> 0,  execute |-> "execute_nop"],
       [opcode |-> 1,  execute |-> "execute_halt"],
       [opcode |-> 2,  execute |-> "execute_add"],
       [opcode |-> 3,  execute |-> "execute_sub"],
       [opcode |-> 4,  execute |-> "execute_mul"],
       [opcode |-> 5,  execute |-> "execute_div"],
       [opcode |-> 6,  execute |-> "execute_inc"],
       [opcode |-> 7,  execute |-> "execute_dec"],
       [opcode |-> 8,  execute |-> "execute_loop"],
       [opcode |-> 9,  execute |-> "execute_movr"],
       [opcode |-> 12, execute |-> "execute_in"],      \* 0x0C
       [opcode |-> 14, execute |-> "execute_out"],     \* 0x0E
       [opcode |-> 15, execute |-> "execute_put"],     \* 0x0F
       [opcode |-> 13, execute |-> "execute_get"],     \* 0x0D
       [opcode |-> 10, execute |-> "execute_load"],    \* 0x0A
       [opcode |-> 11, execute |-> "execute_store"],   \* 0x0B
       [opcode |-> 17, execute |-> "execute_push"],    \* 0x11
       [opcode |-> 16, execute |-> "execute_swap"],    \* 0x10
       [opcode |-> 18, execute |-> "execute_pop"],     \* 0x12
       [opcode |-> 24, execute |-> "execute_call"],    \* 0x18
       [opcode |-> 25, execute |-> "execute_ret"],     \* 0x19
       [opcode |-> 19, execute |-> "execute_cmp"],
       [opcode |-> 20, execute |-> "execute_jmp"],
       [opcode |-> 21, execute |-> "execute_jz"],
       [opcode |-> 22, execute |-> "execute_jnz"],
       [opcode |-> 23, execute |-> "execute_jgt"] >>

\* instructions[i].execute(cpu)
Execute(name, w) ==
    CASE name = "execute_nop" -> execute_nop(w)
      [] name = "execute_halt" -> execute_halt(w)
      [] name = "execute_add" -> execute_add(w)
      [] name = "execute_sub" -> execute_sub(w)
      [] name = "execute_mul" -> execute_mul(w)
      [] name = "execute_div" -> execute_div(w)
      [] name = "execute_inc" -> execute_inc(w)
      [] name = "execute_dec" -> execute_dec(w)
      [] name = "execute_loop" -> execute_loop(w)
      [] name = "execute_movr" -> execute_movr(w)
      [] name = "execute_in" -> execute_in(w)
      [] name = "execute_out" -> execute_out(w)
      [] name = "execute_put" -> execute_put(w)
      [] name = "execute_get" -> execute_get(w)
      [] name = "execute_load" -> execute_load(w)
      [] name = "execute_store" -> execute_store(w)
      [] name = "execute_push" -> execute_push(w)
      [] name = "execute_swap" -> execute_swap(w)
      [] name = "execute_pop" -> execute_pop(w)
      [] name = "execute_call" -> execute_call(w)
      [] name = "execute_ret" -> execute_ret(w)
      [] name = "execute_cmp" -> execute_cmp(w)
      [] name = "execute_jmp" -> execute_jmp(w)
      [] name = "execute_jz" -> execute_jz(w)
      [] name = "execute_jnz" -> execute_jnz(w)
      [] name = "execute_jgt" -> execute_jgt(w)

\* The first table index whose opcode equals the fetched word, 0 if none.
\* Both sides of the comparison are uint32_t.
Lookup(instruction) ==
    LET hits == {i \in 1 .. Len(instructions) :
                    ToUint32(instructions[i].opcode) = instruction}
    IN IF hits = {} THEN 0 ELSE CHOOSE i \in hits : \A j \in hits : i <= j

(***************************************************************************)
(* cpu_step: one fetch-decode-execute cycle.                               *)
(***************************************************************************)
\* After the handler: `executed` is what it returned in world r.w.
Executed(r) ==
    IF r.rv = 0 THEN Done(r.w, 0)
    ELSE Done(Advance(r.w, 1), 1)

\* Dispatch without the instruction_found test: a word that matches no
\* opcode is passed over like a NOP.
Dispatch_NoFoundTest(w, i) ==
    IF i = 0 THEN Done(Advance(w, 1), 1)
    ELSE Executed(Execute(instructions[i].execute, w))

\* The table scan, entered with table index i (0: no opcode matched).
Dispatch(w, i) ==
    IF i = 0 THEN Done(SetStatus(w, CPU_ILLEGAL_INSTRUCTION), 0)
    ELSE Executed(Execute(instructions[i].execute, w))

\* cpu_step with the upper bound of the pointer test one too high.
cpu_step_BoundOffByOne(w) ==
    IF w.cpu.status # CPU_OK THEN Done(w, 0)
    ELSE IF w.cpu.inst_index < 0 \/ w.cpu.inst_index > w.cpu.end_of_stack + 1
    THEN Done(SetStatus(w, CPU_INVALID_ADDRESS), 0)
    ELSE Dispatch(w, Lookup(ToUint32(Mem(w, w.cpu.inst_index))))

cpu_step(w) ==
    IF w.cpu.status # CPU_OK THEN Done(w, 0)
    ELSE IF w.cpu.inst_index < 0 \/ w.cpu.inst_index > w.cpu.end_of_stack
    THEN Done(SetStatus(w, CPU_INVALID_ADDRESS), 0)
    ELSE Dispatch(w, Lookup(ToUint32(Mem(w, w.cpu.inst_index))))

(***************************************************************************)
(* History.  Every call of cpu_step is recorded: the machine and the input *)
(* stream before it, what the call met there, and what it returned.  w.hist holds the last   *)
(* two calls, newest first; w.calls tags each occupied stack slot that a   *)
(* CALL filled with the position of that CALL and the return address it    *)
(* saved; w.attempted and w.executed count, within one API call, the calls *)
(* of cpu_step and the instructions a handler ran for.                     *)
(***************************************************************************)
Opcodes == {instructions[i].opcode : i \in 1 .. Len(instructions)}
NoCall == [p |-> -1, ret |-> 0, size |-> 0, state |-> "none"]

\* What a cpu_step call meets in machine c: a status that refuses it, a
\* pointer outside [0, end_of_stack], a word that is no opcode, or an opcode.
Meets(c) ==
    IF c.status # CPU_OK THEN "refused"
    ELSE IF c.inst_index < 0 \/ c.inst_index > c.end_of_stack THEN "address"
    ELSE IF c.memory[c.inst_index] \notin Opcodes THEN "illegal"
    ELSE "opcode"

Slots(c) == 0 .. (c.stack_capacity - 1)

Record(w, r) ==
    LET b == w.cpu
        a == r.w.cpu
        m == Meets(b)
        word == IF m \in {"opcode", "illegal"} THEN b.memory[b.inst_index] ELSE -1
        op == IF m = "opcode" THEN word ELSE -1
        returned == IF op = 25 /\ r.rv = 1 /\ b.stack_size - 1 \in Slots(b)
                    THEN w.calls[b.stack_size - 1] ELSE NoCall
        entry == [before |-> b, stdin |-> w.stdin, meets |-> m, op |-> op,
                  a1 |-> Mem(w, b.inst_index + 1), a2 |-> Mem(w, b.inst_index + 2),
                  rv |-> r.rv, returned |-> returned]
        tags == [k \in Slots(b) |->
                    IF k >= a.stack_size THEN NoCall
                    ELSE IF op = 24 /\ r.rv = 1 /\ k = b.stack_size
                    THEN [p |-> b.inst_index, ret |-> entry.a2, size |-> b.stack_size,
                          state |-> "call"]
                    ELSE IF w.calls[k].state = "call" /\ StackSlot(a, k) # StackSlot(b, k)
                    THEN [w.calls[k] EXCEPT !.state = "overwritten"]
                    ELSE w.calls[k]]
    IN Done([r.w EXCEPT !.hist = << entry >> \o SubSeq(w.hist, 1, IF Len(w.hist) > 0 THEN 1 ELSE 0),
                        !.calls = tags,
                        !.attempted = @ + 1,
                        !.executed = @ + (IF m = "opcode" THEN 1 ELSE 0)],
            r.rv)

\* cpu_step as cpu_run and the harness call it: the call, then its record.
Stepped(w) == Record(w, cpu_step(w))

(***************************************************************************)
(* cpu_run: up to `steps` calls of cpu_step.                               *)
(***************************************************************************)
\* AfterStep with the HALT step left out of the count.
AfterStep_HaltNotCounted(l, r) ==
    IF r.w.cpu.status = CPU_HALTED
    THEN [l EXCEPT !.w = r.w, !.live = FALSE]
    ELSE IF r.rv = 0
    THEN [l EXCEPT !.w = r.w, !.error_steps = @ + 1, !.live = FALSE]
    ELSE [l EXCEPT !.w = r.w, !.executed_steps = @ + 1]

\* The body of the for loop after its call of cpu_step, on the variables
\* of cpu_run; r is what cpu_step returned and the world it left, `live`
\* is FALSE once the loop has been left by a break.
AfterStep(l, r) ==
    IF r.w.cpu.status = CPU_HALTED
    THEN [l EXCEPT !.w = r.w, !.executed_steps = @ + 1, !.live = FALSE]
    ELSE IF r.rv = 0
    THEN [l EXCEPT !.w = r.w, !.error_steps = @ + 1, !.live = FALSE]
    ELSE [l EXCEPT !.w = r.w, !.executed_steps = @ + 1]

RunIteration(l) == IF ~l.live THEN l ELSE AfterStep(l, Stepped(l.w))

\* for (size_t i = 0; i < steps; ++i): the variables after the loop.
RunLoop(w, steps) ==
    LET l[i \in 0 .. steps] ==
            IF i = 0
            THEN [w |-> w, executed_steps |-> 0, error_steps |-> 0, live |-> TRUE]
            ELSE RunIteration(l[i - 1])
    IN l[steps]

\* RunResult with the failing step left out of the negated count.
RunResult_FailingStepDropped(l) ==
    IF l.error_steps > 0
    THEN Done(l.w, -(l.executed_steps))
    ELSE Done(l.w, l.executed_steps)

\* The return statements after the loop.
RunResult(l) ==
    IF l.error_steps > 0
    THEN Done(l.w, -(l.error_steps + l.executed_steps))
    ELSE Done(l.w, l.executed_steps)

\* cpu_run without its test of the status on entry.
cpu_run_NoStatusTest(w, steps) == RunResult(RunLoop(w, steps))

cpu_run(w, steps) ==
    IF w.cpu.status # CPU_OK THEN Done(w, 0)
    ELSE RunResult(RunLoop(w, steps))

(***************************************************************************)
(* cpu_reset and cpu_destroy.                                              *)
(***************************************************************************)
\* memset(p, 0, n words) on the memory array, p given as an index.
ZeroWords(memory, p, n) ==
    [i \in DOMAIN memory |-> IF i >= p /\ i < p + n THEN 0 ELSE memory[i]]

\* cpu_reset without the assignment of CPU_OK to the status.
cpu_reset_StatusKept(w) ==
    LET c == w.cpu
    IN [w EXCEPT !.cpu.registers = [r \in Registers |-> 0],
                 !.cpu.stack_size = 0,
                 !.cpu.memory = ZeroWords(c.memory, c.stack_bottom - c.stack_capacity,
                                          c.stack_capacity)]

cpu_reset(w) ==
    LET c == w.cpu
    IN [w EXCEPT !.cpu.registers = [r \in Registers |-> 0],
                 !.cpu.stack_size = 0,
                 !.cpu.status = CPU_OK,
                 !.cpu.memory = ZeroWords(c.memory, c.stack_bottom - c.stack_capacity,
                                          c.stack_capacity)]

\* After cpu_destroy the buffer is freed and the pointers are NULL: the
\* model keeps an empty memory and no stack.
cpu_destroy(w) ==
    [w EXCEPT !.cpu.status = CPU_OK,
              !.cpu.inst_index = 0,
              !.cpu.end_of_stack = 0,
              !.cpu.registers = [r \in Registers |-> 0],
              !.cpu.memory = << >>,
              !.cpu.memory_size = 0,
              !.cpu.stack_size = 0,
              !.cpu.stack_bottom = 0]

(***************************************************************************)
(* Programs.  The binary format is a flat stream of little-endian 32-bit   *)
(* words; WordBytes is what the assembler emits for one word.              *)
(***************************************************************************)
WordBytes(word) ==
    LET u == ToUint32(word)
    IN << u.low % 256, (u.low \div 256) % 256, (u.low \div 65536) % 256,
          (u.low \div 16777216) + 128 * u.top >>

RECURSIVE ProgramBytes(_)
ProgramBytes(words) ==
    IF words = << >> THEN << >>
    ELSE WordBytes(Head(words)) \o ProgramBytes(Tail(words))

NOP == << 0 >>
HALT == << 1 >>
ADD(r) == << 2, r >>
SUB(r) == << 3, r >>
MUL(r) == << 4, r >>
DIV(r) == << 5, r >>
INC(r) == << 6, r >>
DEC(r) == << 7, r >>
LOOP(addr) == << 8, addr >>
MOVR(r, n) == << 9, r, n >>
LOAD(r, n) == << 10, r, n >>
STORE(r, n) == << 11, r, n >>
IN_(r) == << 12, r >>
GET(r) == << 13, r >>
OUT(r) == << 14, r >>
PUT(r) == << 15, r >>
SWAP(r1, r2) == << 16, r1, r2 >>
PUSH(r) == << 17, r >>
POP(r) == << 18, r >>
CMP(r1, r2) == << 19, r1, r2 >>
JMP(addr) == << 20, addr >>
JZ(addr) == << 21, addr >>
JNZ(addr) == << 22, addr >>
JGT(addr) == << 23, addr >>
CALL(addr, retaddr) == << 24, addr, retaddr >>
RET == << 25 >>

\* The last index of the first block: with one block, stack_bottom.
Top == BLOCK_SIZE - 1

\* Programs run on an empty input stream.
Silent ==
    { MOVR(0, 5) \o MOVR(1, 3) \o ADD(1) \o HALT,
      DIV(1) \o HALT,
      MOVR(0, 7) \o MOVR(1, -2) \o DIV(1) \o HALT,
      MOVR(0, 5) \o << -1 >>,
      NOP \o << 26 >>,
      MOVR(0, 7) \o PUSH(0) \o POP(1) \o HALT,
      PUSH(0) \o JMP(0),
      POP(0),
      INC(0) \o PUSH(0) \o PUSH(0) \o POP(4) \o POP(0) \o POP(1),
      CALL(4, 3) \o HALT \o RET,
      CALL(5, 4) \o HALT \o HALT \o RET,
      CALL(4, 3) \o HALT \o STORE(0, 0) \o RET,
      CALL(4, 3) \o HALT \o PUSH(0) \o POP(1) \o RET,
      CALL(4, 3) \o HALT \o CALL(8, 7) \o RET \o RET,
      RET,
      CALL(3, Top) \o RET,
      MOVR(0, 7) \o PUSH(0) \o LOAD(1, 0) \o STORE(4, 0) \o HALT,
      PUSH(0) \o PUSH(1) \o LOAD(2, 1) \o STORE(2, 0),
      GET(3) \o GET(4),
      LOAD(0, 0),
      STORE(0, 1),
      MOVR(3, -1) \o PUSH(0) \o LOAD(1, 0),
      MOVR(3, 1) \o PUSH(3) \o STORE(3, 0),
      MOVR(3, 1) \o PUSH(3) \o PUSH(0) \o STORE(3, 0),
      MOVR(3, 1) \o PUSH(3) \o LOAD(1, -1),
      MOVR(2, 2) \o DEC(2) \o LOOP(3) \o HALT,
      CMP(0, 1) \o JGT(8) \o JZ(8) \o HALT \o JNZ(7) \o HALT,
      SWAP(0, 1) \o MUL(1) \o SUB(1) \o INC(3) \o NOP \o HALT,
      MOVR(0, 65) \o PUT(0) \o OUT(0) \o MOVR(1, -3) \o PUT(1),
      ADD(5), SUB(-1), MUL(7), DIV(5), INC(5), DEC(-1), MOVR(5, 1),
      LOAD(5, 0), STORE(9, 0), OUT(5), PUT(5), SWAP(0, 9), SWAP(6, 0),
      PUSH(-1), POP(7), CMP(5, 0), CMP(0, 5),
      JMP(-1),
      JMP(Top), JMP(Top - 1), JMP(Top - 2), JMP(Top - 3),
      HALT }

\* Programs that read standard input, each with the streams it is run on.
Talking == { IN_(0) \o OUT(0) \o GET(1) \o PUT(1) \o HALT, GET(2) \o GET(0), IN_(6), GET(5) }
Inputs == { << >>, << 49, 50, 120 >>, << 120 >>, << 32, 45, 55 >> }

\* Programs run with registers the harness sets through cpu_set_register,
\* each preset a pair << register, value >>.
Preset ==
    { [words |-> DIV(1) \o HALT, presets |-> {<< 0, 10 >>}],
      [words |-> DIV(1) \o HALT, presets |-> {<< 0, 10 >>, << 1, -3 >>}],
      [words |-> DIV(4) \o HALT, presets |-> {<< 4, 10 >>}],
      [words |-> PUSH(0) \o JMP(0), presets |-> {<< 0, 10 >>}],
      [words |-> CMP(0, 1) \o JGT(8) \o JZ(8) \o HALT \o JNZ(7) \o HALT,
       presets |-> {<< 0, 10 >>, << 1, 11 >>}],
      [words |-> PUSH(0) \o PUSH(1) \o LOAD(2, 1) \o STORE(2, 0),
       presets |-> {<< 3, -1 >>, << 1, 10 >>}],
      [words |-> PUSH(0) \o LOAD(2, 1) \o STORE(2, 0), presets |-> {<< 3, 1 >>}],
      [words |-> CALL(4, 3) \o HALT \o STORE(0, 0) \o RET, presets |-> {<< 0, 10 >>}],
      [words |-> LOOP(0), presets |-> {<< 2, 10 >>}] }

\* Programs also loaded with a stack that takes all the rest of the first
\* block, so that the last program word sits at end_of_stack.
Brimful == { HALT, PUSH(0) \o JMP(0), MOVR(0, 7) \o << 17 >> }

Setups ==
    {[words |-> p, input |-> << >>, presets |-> {}] : p \in Silent \cup Brimful}
    \cup {[words |-> p, input |-> i, presets |-> {}] : p \in Talking, i \in Inputs}
    \cup {[words |-> s.words, input |-> << >>, presets |-> s.presets] : s \in Preset}

\* Stack capacities, the contents of uninitialised storage, the values a
\* read past the buffer may yield, and the values the harness sets.
Capacities == 0 .. MaxCap
CapacitiesOf(words) ==
    Capacities \cup (IF words \in Brimful THEN {BLOCK_SIZE - Len(words)} ELSE {})
FillVals == {0, 24}
OobVals == {0, 9}
Budgets == 0 .. MaxSteps

(***************************************************************************)
(* The state: one machine and the harness that drives it.                  *)
(***************************************************************************)
VARIABLES
    request,    \* the arguments cpu_create_memory is called with
    image,      \* what cpu_create_memory returned (outcome "none": not called yet)
    cpu,        \* struct cpu, the memory buffer included
    stdin,      \* the bytes not yet read from standard input
    stdout,     \* the bytes written to standard output
    heap,       \* what every word of fresh malloc/realloc storage held
    alive,      \* FALSE once cpu_destroy has run
    lastCall,   \* the API function called last
    lastArg,    \* the step budget it was given (0 unless it was cpu_run)
    entered,    \* the status of the machine when it was called
    retval,     \* what it returned (0 for the void ones)
    hist,       \* the last two cpu_step calls, newest first
    calls,      \* the CALL that filled each stack slot
    attempted,  \* cpu_step calls made by the last API call
    executed,   \* instructions the handlers ran for in the last API call
    clock,      \* cpu_step calls made with status CPU_OK, over the whole life
    pending,    \* the cpu_set_register calls the harness has yet to make
    initial     \* the registers and the input stream the program is started with

vars == << request, image, cpu, stdin, stdout, heap, alive, lastCall, lastArg, entered, retval, hist, calls,
           attempted, executed, clock, pending, initial >>

World(u) ==
    [cpu |-> cpu, stdin |-> stdin, stdout |-> stdout, oob |-> u,
     hist |-> hist, calls |-> calls, attempted |-> 0, executed |-> 0]

\* A handler reads at most memory[inst_index + 2] with inst_index at most
\* end_of_stack: it can read past the buffer only when the stack has fewer
\* than two slots.  Otherwise the value of such a read does not matter.
OobChoices == IF cpu.stack_capacity < 2 THEN OobVals ELSE {0}

Becomes(w) ==
    /\ cpu' = w.cpu
    /\ stdin' = w.stdin
    /\ stdout' = w.stdout
    /\ hist' = w.hist
    /\ calls' = w.calls
    /\ attempted' = w.attempted
    /\ executed' = w.executed

\* The harness calls API function `name` with step budget `arg`.
Called(name, arg) ==
    /\ lastCall' = name
    /\ lastArg' = arg
    /\ entered' = cpu.status

\* A call that returns r.rv and leaves the world r.w.
Returns(r) ==
    /\ Becomes(r.w)
    /\ retval' = r.rv

\* main: load the program, create the machine on the loaded memory.
Init ==
    \E s \in Setups, fill \in FillVals : \E cap \in CapacitiesOf(s.words) :
        LET img == cpu_create_memory(ProgramBytes(s.words), cap, fill)
        IN /\ img.outcome = "ok"
           /\ request = [program |-> ProgramBytes(s.words), stack_capacity |-> cap]
           /\ image = img
           /\ cpu = cpu_create(img.memory, img.stack_bottom, cap)
           /\ stdin = s.input
           /\ stdout = << >>
           /\ heap = fill
           /\ alive = TRUE
           /\ lastCall = "cpu_create"
           /\ lastArg = 0
           /\ entered = CPU_OK
           /\ retval = 0
           /\ hist = << >>
           /\ calls = [k \in 0 .. (cap - 1) |-> NoCall]
           /\ attempted = 0
           /\ executed = 0
           /\ clock = 0
           /\ pending = s.presets
           /\ initial = [registers |-> [r \in Registers |->
                                           IF \E a \in s.presets : a[1] = r
                                           THEN (CHOOSE a \in s.presets : a[1] = r)[2]
                                           ELSE 0],
                          input |-> s.input]

Step(u) ==
    /\ alive
    /\ u \in OobChoices
    /\ clock < MaxSteps
    /\ Returns(Stepped(World(u)))
    /\ clock' = clock + (IF cpu.status = CPU_OK THEN 1 ELSE 0)
    /\ Called("cpu_step", 0)
    /\ UNCHANGED << initial, request, image, heap, alive, pending >>

Run(steps, u) ==
    /\ alive
    /\ u \in OobChoices
    /\ clock + steps <= MaxSteps
    /\ Returns(cpu_run(World(u), steps))
    /\ clock' = clock + attempted'
    /\ Called("cpu_run", steps)
    /\ UNCHANGED << initial, request, image, heap, alive, pending >>

Reset ==
    /\ alive
    /\ Becomes([cpu_reset(World(0)) EXCEPT !.hist = << >>,
                                            !.calls = [k \in DOMAIN calls |-> NoCall]])
    /\ retval' = 0
    /\ Called("cpu_reset", 0)
    /\ UNCHANGED << initial, request, image, heap, alive, clock, pending >>

SetRegister(reg, value) ==
    /\ alive
    /\ << reg, value >> \in pending
    /\ Becomes([cpu_set_register(World(0), reg, value) EXCEPT !.hist = << >>])
    /\ retval' = 0
    /\ Called("cpu_set_register", 0)
    /\ pending' = pending \ {<< reg, value >>}
    /\ UNCHANGED << initial, request, image, heap, alive, clock >>

\* The harness starts the program over: cpu_reset, then cpu_set_register
\* for each register with the value the program was started with.
Reload(w, regs) ==
    cpu_set_register(
        cpu_set_register(
            cpu_set_register(
                cpu_set_register(
                    cpu_set_register(w, REGISTER_A, regs[REGISTER_A]),
                    REGISTER_B, regs[REGISTER_B]),
                REGISTER_C, regs[REGISTER_C]),
            REGISTER_D, regs[REGISTER_D]),
        REGISTER_RESULT, regs[REGISTER_RESULT])

Rewind ==
    /\ alive
    /\ hist # << >>
    /\ Becomes([Reload(cpu_reset(World(0)), initial.registers)
                   EXCEPT !.hist = << >>, !.calls = [k \in DOMAIN calls |-> NoCall]])
    /\ retval' = 0
    /\ Called("rewind", 0)
    /\ UNCHANGED << initial, request, image, heap, alive, clock, pending >>

Destroy ==
    /\ alive
    /\ Becomes([cpu_destroy(World(0)) EXCEPT !.hist = << >>, !.calls = << >>])
    /\ alive' = FALSE
    /\ retval' = 0
    /\ Called("cpu_destroy", 0)
    /\ UNCHANGED << initial, request, image, heap, clock, pending >>

Next ==
    \/ \E u \in OobVals : Step(u)
    \/ \E steps \in Budgets, u \in OobVals : Run(steps, u)
    \/ Reset
    \/ Rewind
    \/ \E a \in pending : SetRegister(a[1], a[2])
    \/ Destroy

Spec == Init /\ [][Next]_vars

(***************************************************************************)
(* The loader on its own: cpu_create_memory called on a program file, then *)
(* cpu_create on the buffer it returned.  The files are whole programs,    *)
(* files cut short inside a word, and files too long for the words the     *)
(* loader's memset leaves room for.                                        *)
(***************************************************************************)
Whole == {ProgramBytes(p) : p \in Silent \cup Talking \cup Brimful} \cup {<< >>}
CutShort ==
    LET b == ProgramBytes(MOVR(0, 5) \o MOVR(1, -2) \o HALT)
    IN {SubSeq(b, 1, n) : n \in {m \in 1 .. Len(b) : m % 4 # 0}}
Long ==
    { ProgramBytes(MOVR(0, 5) \o MOVR(1, 3) \o ADD(1) \o NOP \o NOP \o NOP \o NOP \o HALT),
      [i \in 1 .. (4 * (BLOCK_SIZE + 1)) |-> 0] }
Files == Whole \cup CutShort \cup Long
LoadCapacities == Capacities \cup {BLOCK_SIZE - 1, BLOCK_SIZE}

NotLoaded == [outcome |-> "none", memory |-> << >>, stack_bottom |-> 0]
\* No machine yet: what the model keeps in cpu before cpu_create.
NoCpu ==
    [memory |-> << >>, stack_bottom |-> 0, stack_capacity |-> 0, inst_index |-> 0,
     status |-> CPU_OK, registers |-> [r \in Registers |-> 0], stack_size |-> 0,
     end_of_stack |-> 0, memory_size |-> 0]

LoadInit ==
    \E f \in Files, cap \in LoadCapacities, fill \in FillVals :
        /\ request = [program |-> f, stack_capacity |-> cap]
        /\ image = NotLoaded
        /\ cpu = NoCpu
        /\ stdin = << >>
        /\ stdout = << >>
        /\ heap = fill
        /\ alive = FALSE
        /\ lastCall = "main"
        /\ lastArg = 0
        /\ entered = CPU_OK
        /\ retval = 0
        /\ hist = << >>
        /\ calls = << >>
        /\ attempted = 0
        /\ executed = 0
        /\ clock = 0
        /\ pending = {}
        /\ initial = [registers |-> [r \in Registers |-> 0], input |-> << >>]

Load ==
    /\ image.outcome = "none"
    /\ image' = cpu_create_memory(request.program, request.stack_capacity, heap)
    /\ lastCall' = "cpu_create_memory"
    /\ UNCHANGED << request, cpu, stdin, stdout, heap, alive, lastArg, entered, retval,
                    hist, calls, attempted, executed, clock, pending, initial >>

Create ==
    /\ image.outcome = "ok"
    /\ ~alive
    /\ lastCall = "cpu_create_memory"
    /\ cpu' = cpu_create(image.memory, image.stack_bottom, request.stack_capacity)
    /\ calls' = [k \in 0 .. (request.stack_capacity - 1) |-> NoCall]
    /\ alive' = TRUE
    /\ lastCall' = "cpu_create"
    /\ UNCHANGED << request, image, stdin, stdout, heap, lastArg, entered, retval,
                    hist, attempted, executed, clock, pending, initial >>

LoadNext == Load \/ Create

LoadSpec == LoadInit /\ [][LoadNext]_vars

(***************************************************************************)
(* Properties.  Last is the record of the newest cpu_step call; the        *)
(* history is emptied by cpu_reset, cpu_set_register and cpu_destroy, so   *)
(* while it is non-empty the machine is as that call left it.              *)
(***************************************************************************)
Stepping == hist # << >>
Last == hist[1]
Ran(op) == Stepping /\ Last.meets = "opcode" /\ Last.op = op

\* The registers, the stack (contents and size) and the pointer are as they
\* were before the newest cpu_step call.
RegistersKept == cpu.registers = Last.before.registers
StackKept ==
    /\ cpu.stack_size = Last.before.stack_size
    /\ cpu.memory = Last.before.memory
PointerKept == cpu.inst_index = Last.before.inst_index

\* Memory holds the words `words` from index 0.
Loaded(words) ==
    /\ alive
    /\ \A i \in 1 .. Len(words) : cpu.memory[i - 1] = words[i]

\* The last call was a cpu_run that made every cpu_step call of the
\* machine's life: it started at pointer 0 on the machine as created.
FreshRun ==
    /\ lastCall = "cpu_run"
    /\ entered = CPU_OK
    /\ clock = attempted

\* C1: a cpu_run that ends with status CPU_HALTED returns a count that is
\* not negative and equals the number of instructions executed, the HALT
\* included; run on the fresh machine with MOVR A,5; MOVR B,3; ADD B; HALT
\* it returns 4 and leaves A = 8 and Result = 8.
C1_RunToHalt ==
    /\ (lastCall = "cpu_run" /\ entered = CPU_OK /\ cpu.status = CPU_HALTED)
          => (retval >= 0 /\ retval = executed /\ Ran(1) /\ retval <= lastArg)
    /\ (FreshRun /\ pending = {} /\ lastArg >= 4
          /\ Loaded(MOVR(0, 5) \o MOVR(1, 3) \o ADD(1) \o HALT))
          => /\ retval = 4
             /\ cpu.status = CPU_HALTED
             /\ cpu.registers[REGISTER_A] = 8
             /\ cpu.registers[REGISTER_RESULT] = 8

C1_Witness ==
    /\ FreshRun
    /\ Loaded(MOVR(0, 5) \o MOVR(1, 3) \o ADD(1) \o HALT)
    /\ cpu.status = CPU_HALTED
    /\ retval = 4
    /\ executed = 4
    /\ cpu.registers[REGISTER_A] = 8

\* C2: a cpu_run called with status CPU_OK returns a count that is not
\* negative exactly when it stopped on an exhausted budget or on HALT
\* (status CPU_OK or CPU_HALTED) and negative exactly when a step failed
\* with an error status; its magnitude is the number of cpu_step calls made,
\* the failing one included, and never exceeds the budget.
C2_RunReturn ==
    (lastCall = "cpu_run" /\ entered = CPU_OK) =>
        /\ (retval >= 0) <=> (cpu.status \in {CPU_OK, CPU_HALTED})
        /\ (retval < 0) <=> (cpu.status \in ErrorStatuses)
        /\ (cpu.status = CPU_OK) => (attempted = lastArg /\ retval = lastArg)
        /\ (cpu.status = CPU_HALTED) => Ran(1)
        /\ (retval < 0) => (Stepping /\ Last.rv = 0 /\ Last.before.status = CPU_OK)
        /\ Abs(retval) = attempted
        /\ Abs(retval) <= lastArg

C2_Witness ==
    /\ lastCall = "cpu_run"
    /\ entered = CPU_OK
    /\ retval <= -3
    /\ retval = -attempted
    /\ cpu.status \in ErrorStatuses

\* C3: a cpu_step that fetches, at a pointer in [0, end_of_stack], a word
\* that is no opcode of the table fails with CPU_ILLEGAL_INSTRUCTION and
\* leaves the pointer, the registers and the stack as they were; the
\* cpu_run that made the call returns a negative count.
C3_IllegalInstruction ==
    (Stepping /\ Last.meets = "illegal") =>
        /\ Last.rv = 0
        /\ cpu.status = CPU_ILLEGAL_INSTRUCTION
        /\ PointerKept
        /\ RegistersKept
        /\ StackKept
        /\ (lastCall = "cpu_run" /\ attempted > 0) => (retval < 0)
        /\ (lastCall = "cpu_step") => (retval = 0)

C3_Witness ==
    /\ Stepping
    /\ Last.meets = "illegal"
    /\ Last.before.memory[Last.before.inst_index] < 0
    /\ lastCall = "cpu_run"
    /\ retval = -2

\* C4: while the status is not CPU_OK, a cpu_step call returns 0 and a
\* cpu_run call returns 0 without one call of cpu_step, and neither changes
\* the machine (pointer, registers, stack, memory, status) or the streams.
C4_Inert ==
    [][(cpu.status # CPU_OK /\ lastCall' \in {"cpu_step", "cpu_run"})
          => (/\ cpu' = cpu
              /\ retval' = 0
              /\ executed' = 0
              /\ (lastCall' = "cpu_run") => (attempted' = 0)
              /\ stdin' = stdin
              /\ stdout' = stdout)]_vars

C4_Witness ==
    /\ cpu.status = CPU_HALTED
    /\ entered = CPU_HALTED
    /\ lastCall = "cpu_run"
    /\ lastArg > 0
    /\ retval = 0
    /\ Ran(1)

\* C5: the stack size stays within 0 .. stack_capacity.
C5_StackBounds ==
    /\ 0 <= cpu.stack_size
    /\ cpu.stack_size <= cpu.stack_capacity

C5_Witness ==
    /\ Ran(24)
    /\ Last.rv = 1
    /\ cpu.stack_capacity >= 2
    /\ cpu.stack_size = cpu.stack_capacity

\* C6: PUSH r with r in 0..4, executed with stack_size = stack_capacity,
\* fails with CPU_INVALID_STACK_OPERATION and leaves stack_size, every
\* stack slot and every register as they were.
C6_PushFull ==
    (Ran(17) /\ is_valid_reg(Last.a1)
        /\ Last.before.stack_size = Last.before.stack_capacity) =>
        /\ Last.rv = 0
        /\ cpu.status = CPU_INVALID_STACK_OPERATION
        /\ cpu.stack_size = Last.before.stack_size
        /\ \A k \in Slots(cpu) : StackSlot(cpu, k) = StackSlot(Last.before, k)
        /\ cpu.memory = Last.before.memory
        /\ RegistersKept

C6_Witness ==
    /\ Ran(17)
    /\ is_valid_reg(Last.a1)
    /\ Last.before.stack_size = Last.before.stack_capacity
    /\ cpu.stack_capacity >= 1
    /\ cpu.registers[Last.a1] # StackSlot(cpu, cpu.stack_size - 1)
    /\ cpu.status = CPU_INVALID_STACK_OPERATION

\* C7: PUSH r with the stack below capacity and r in 0..4 succeeds; a POP r2
\* with r2 in 0..4 executed right after it succeeds too, leaves in reg[r2]
\* the value reg[r] had before the PUSH, leaves stack_size as it was before
\* the PUSH, and leaves 0 in the slot the pair used.
Pushed(e) ==
    /\ e.meets = "opcode"
    /\ e.op = 17
    /\ is_valid_reg(e.a1)
    /\ e.before.stack_size < e.before.stack_capacity

C7_PushPop ==
    /\ (Stepping /\ Pushed(Last)) => (Last.rv = 1)
    /\ (Len(hist) = 2 /\ Pushed(hist[2]) /\ Ran(18) /\ is_valid_reg(Last.a1)) =>
          /\ Last.rv = 1
          /\ cpu.registers[Last.a1] = hist[2].before.registers[hist[2].a1]
          /\ cpu.stack_size = hist[2].before.stack_size
          /\ StackSlot(cpu, hist[2].before.stack_size) = 0

C7_Witness ==
    /\ Len(hist) = 2
    /\ Pushed(hist[2])
    /\ Ran(18)
    /\ Last.rv = 1
    /\ hist[2].before.stack_size = 1
    /\ hist[2].a1 # Last.a1
    /\ cpu.registers[Last.a1] # 0

\* C8: DIV r with r in 0..4 and reg[r] = 0 fails with CPU_DIV_BY_ZERO and
\* leaves A and Result as they were; the cpu_run that executed it returns a
\* negative count.  DIV B; HALT run with A = 10 and B = 0 leaves A = 10.
C8_DivByZero ==
    (Ran(5) /\ is_valid_reg(Last.a1) /\ Last.before.registers[Last.a1] = 0) =>
        /\ Last.rv = 0
        /\ cpu.status = CPU_DIV_BY_ZERO
        /\ cpu.registers[REGISTER_A] = Last.before.registers[REGISTER_A]
        /\ cpu.registers[REGISTER_RESULT] = Last.before.registers[REGISTER_RESULT]
        /\ (lastCall = "cpu_run" /\ attempted > 0) => (retval < 0)

C8_Witness ==
    /\ Loaded(DIV(1) \o HALT)
    /\ Ran(5)
    /\ lastCall = "cpu_run"
    /\ retval = -1
    /\ cpu.status = CPU_DIV_BY_ZERO
    /\ cpu.registers[REGISTER_A] = 10
    /\ cpu.registers[REGISTER_B] = 0

\* C9 as claimed: a RET that pops the return address a CALL at position p
\* saved (the slot still occupied since the CALL) leaves the pointer at
\* p + 3, the word after the CALL's two operands, and stack_size as it was
\* before the CALL.
Returning == Ran(25) /\ Last.rv = 1 /\ Last.returned.state # "none"

C9_ReturnsBehindCall ==
    Returning =>
        /\ cpu.inst_index = Last.returned.p + 3
        /\ cpu.stack_size = Last.returned.size

\* C9 as amended: such a RET, when no store changed the saved word since the
\* CALL, leaves the pointer at retaddr, the second operand of the CALL; this
\* is p + 3 when the program encodes retaddr = p + 3.  stack_size is as it
\* was before the CALL.
C9_ReturnsToRetaddr ==
    (Returning /\ Last.returned.state = "call") =>
        /\ cpu.inst_index = Last.returned.ret
        /\ cpu.stack_size = Last.returned.size
        /\ cpu.stack_size = Last.before.stack_size - 1
        /\ (Last.returned.ret = Last.returned.p + 3)
              => (cpu.inst_index = Last.returned.p + 3)

C9_Witness ==
    /\ Returning
    /\ Last.returned.state = "call"
    /\ Last.returned.ret # Last.returned.p + 3
    /\ cpu.inst_index = Last.returned.ret
    /\ cpu.status = CPU_OK

\* C10: after cpu_reset the five registers are 0, the status is CPU_OK,
\* stack_size is 0 and every slot of the stack, from stack_bottom[0] down to
\* stack_bottom[-(stack_capacity - 1)], holds 0.  Stated for the machines
\* whose buffer was all zero behind the program when it was created, so
\* that a slot that is not 0 is one the program wrote.
C10_ResetClearsStack ==
    (lastCall = "cpu_reset" /\ heap = 0) =>
        /\ \A r \in Registers : cpu.registers[r] = 0
        /\ cpu.status = CPU_OK
        /\ cpu.stack_size = 0
        /\ \A k \in Slots(cpu) : StackSlot(cpu, k) = 0

\* C11: cpu_reset leaves the instruction pointer and every word of the
\* code/data region, the indices 0 .. end_of_stack, as they were.
C11_ResetFrame ==
    [][(lastCall' = "cpu_reset") =>
          /\ cpu'.inst_index = cpu.inst_index
          /\ \A i \in 0 .. cpu.end_of_stack : cpu'.memory[i] = cpu.memory[i]]_vars

\* C12: after a successful load of a program of k words, every word of the
\* returned buffer at index k or above, the stack region included, is 0.
C12_ZeroBeyondProgram ==
    (image.outcome = "ok") =>
        \A i \in DOMAIN image.memory :
            (i >= WordsRead(request.program)) => (image.memory[i] = 0)

\* C13: a load of a file whose length is not a multiple of 4 returns NULL
\* to its caller.
C13_CutShortReturnsNull ==
    (lastCall = "cpu_create_memory" /\ Len(request.program) % 4 # 0) =>
        (image.outcome = "null")

(***************************************************************************)
(* C14.  Origin is the machine the program was started on: the machine as  *)
(* created on the loaded buffer, with the registers the harness set.  Two  *)
(* executions are compared step by step on what can be seen of them: the   *)
(* registers, the status, stack_size and the occupied stack slots.         *)
(***************************************************************************)
Origin ==
    [cpu_create(image.memory, image.stack_bottom, request.stack_capacity)
        EXCEPT !.registers = initial.registers]

Seen(c) ==
    [registers |-> c.registers, status |-> c.status, stack_size |-> c.stack_size,
     stack |-> [k \in 0 .. (c.stack_size - 1) |-> StackSlot(c, k)]]

\* The machine after each of the first n cpu_step calls made on machine c,
\* with input stream `input` and u the value of a read past the buffer.
StepsFrom(c, input, u, n) ==
    LET t[i \in 0 .. n] ==
            IF i = 0
            THEN [cpu |-> c, stdin |-> input, stdout |-> << >>, oob |-> u,
                  hist |-> << >>, calls |-> << >>, attempted |-> 0, executed |-> 0]
            ELSE cpu_step(t[i - 1]).w
    IN [i \in 0 .. n |-> Seen(t[i].cpu)]

\* Machines c and d, each run on the program's input stream from its
\* start, show the same at every step.
SameTrace(c, d) ==
    \A u \in OobChoices :
        StepsFrom(c, initial.input, u, MaxSteps) = StepsFrom(d, initial.input, u, MaxSteps)

\* The harness has just started the program over, and the cpu_reset in it
\* left the code/data region as it was loaded.
Rewound ==
    /\ lastCall = "rewind"
    /\ \A i \in 0 .. cpu.end_of_stack : cpu.memory[i] = Origin.memory[i]

JumpTaken(op, c) ==
    \/ op = 20
    \/ op = 21 /\ c.registers[REGISTER_RESULT] = 0
    \/ op = 22 /\ c.registers[REGISTER_RESULT] # 0
    \/ op = 23 /\ c.registers[REGISTER_RESULT] > 0
    \/ op = 8 /\ c.registers[REGISTER_C] # 0
    \/ op = 24 /\ c.stack_size < c.stack_capacity

\* The step recorded in e: it succeeded and left the pointer at `index`.
LandedAt(e, index, c) == e.rv = 1 /\ c.status = CPU_OK /\ c.inst_index = index

\* C15: a step that executes a taken jump with target operand addr succeeds
\* and leaves the pointer at addr, so that the next fetch is at addr; a
\* step that executes JZ, JNZ, JGT or LOOP with the condition false
\* succeeds and leaves the pointer at the word behind the operand.
C15_JumpLands ==
    (Stepping /\ Last.meets = "opcode") =>
        /\ (Last.op \in {8, 20, 21, 22, 23, 24} /\ JumpTaken(Last.op, Last.before))
              => LandedAt(Last, Last.a1, cpu)
        /\ (Last.op \in {8, 21, 22, 23} /\ ~JumpTaken(Last.op, Last.before))
              => LandedAt(Last, Last.before.inst_index + 2, cpu)

\* JGT not taken at index 3, then JZ taken at index 5 to index 8.
C15_Witness ==
    /\ Len(hist) = 2
    /\ hist[2].meets = "opcode" /\ hist[2].op = 23
    /\ ~JumpTaken(23, hist[2].before)
    /\ Last.before.inst_index = hist[2].before.inst_index + 2
    /\ Ran(21)
    /\ JumpTaken(21, Last.before)
    /\ Last.a1 = 8
    /\ cpu.inst_index = 8
    /\ Last.before.inst_index = 5

\* The instructions with one register operand, those with two, and the
\* number of operand words of each instruction that takes a register.
OneRegister == {2, 3, 4, 5, 6, 7, 9, 10, 11, 12, 13, 14, 15, 17, 18}
TwoRegisters == {16, 19}
OperandCount(op) == IF op \in {9, 10, 11, 16, 19} THEN 2 ELSE 1

\* The step recorded in e executed an instruction with a register operand
\* outside 0 .. 4.
BadRegister(e) ==
    /\ e.meets = "opcode"
    /\ \/ e.op \in OneRegister /\ ~is_valid_reg(e.a1)
       \/ e.op \in TwoRegisters /\ (~is_valid_reg(e.a1) \/ ~is_valid_reg(e.a2))

\* Such a step fails with CPU_ILLEGAL_OPERAND and leaves the registers and
\* the stack alone.
Rejected ==
    /\ Last.rv = 0
    /\ cpu.status = CPU_ILLEGAL_OPERAND
    /\ RegistersKept
    /\ StackKept

\* C16 as claimed: an instruction with a register operand outside 0 .. 4
\* fails with CPU_ILLEGAL_OPERAND, registers and stack unchanged, and the
\* pointer advanced by the number of its operands.
C16_BadRegisterSkipsOperands ==
    (Stepping /\ BadRegister(Last)) =>
        /\ Rejected
        /\ cpu.inst_index = Last.before.inst_index + OperandCount(Last.op)

\* C16 as amended: so it is for every such instruction but IN, which tests
\* the register before it advances and leaves the pointer on its opcode.
C16_BadRegisterRejected ==
    (Stepping /\ BadRegister(Last)) =>
        /\ Rejected
        /\ cpu.inst_index =
              Last.before.inst_index + (IF Last.op = 12 THEN 0 ELSE OperandCount(Last.op))

C16_Witness ==
    /\ Ran(12)
    /\ BadRegister(Last)
    /\ Last.a1 = 6
    /\ cpu.status = CPU_ILLEGAL_OPERAND
    /\ cpu.inst_index = 0
    /\ stdin # << >>

\* For a LOAD r,n or STORE r,n recorded in e: D + n, and the stack slot
\* that lies D + n positions below the top of the stack.
Offset(e) == e.before.registers[REGISTER_D] + e.a2
Addressed(e) == (e.before.stack_size - 1) - Offset(e)
InOccupied(e) == 0 <= Offset(e) /\ Offset(e) < e.before.stack_size

\* C17: LOAD r,n and STORE r,n with r in 0 .. 4 succeed exactly when
\* 0 <= D + n < stack_size; LOAD then copies the slot D + n below the top
\* into reg[r] and STORE writes reg[r] to that slot, nothing else changing
\* in the registers or in memory; otherwise they fail with
\* CPU_INVALID_STACK_OPERATION and change no register and no word of memory.
C17_LoadStoreInStack ==
    (Stepping /\ Last.meets = "opcode" /\ Last.op \in {10, 11} /\ is_valid_reg(Last.a1)) =>
        /\ (Last.rv = 1) <=> InOccupied(Last)
        /\ cpu.stack_size = Last.before.stack_size
        /\ InOccupied(Last) =>
              /\ cpu.status = CPU_OK
              /\ Addressed(Last) \in 0 .. (cpu.stack_size - 1)
              /\ (Last.op = 10) =>
                    /\ cpu.registers = [Last.before.registers EXCEPT
                                           ![Last.a1] = StackSlot(Last.before, Addressed(Last))]
                    /\ cpu.memory = Last.before.memory
              /\ (Last.op = 11) =>
                    /\ cpu.memory = [Last.before.memory EXCEPT
                                        ![cpu.stack_bottom - Addressed(Last)] =
                                            Last.before.registers[Last.a1]]
                    /\ RegistersKept
        /\ ~InOccupied(Last) =>
              /\ cpu.status = CPU_INVALID_STACK_OPERATION
              /\ RegistersKept
              /\ StackKept

\* LOAD B,0 has fetched the 7 on top of the stack, then STORE Result,0 has
\* overwritten it.
C17_Witness ==
    /\ Len(hist) = 2
    /\ hist[2].meets = "opcode" /\ hist[2].op = 10 /\ hist[2].rv = 1
    /\ cpu.registers[REGISTER_B] = 7
    /\ Ran(11)
    /\ Last.rv = 1
    /\ InOccupied(Last)
    /\ StackSlot(Last.before, Addressed(Last)) = 7
    /\ StackSlot(cpu, Addressed(Last)) = 0

\* The step recorded in e executed GET r with r in 0 .. 4 on an input
\* stream that had no byte left.
GetAtEnd(e) ==
    /\ e.meets = "opcode"
    /\ e.op = 13
    /\ is_valid_reg(e.a1)
    /\ e.stdin = << >>

\* C18 as claimed: GET r with r in 0 .. 4, r = C included, executed at the
\* end of the input succeeds with status CPU_OK and leaves 0 in register C
\* and -1 in reg[r].
C18_GetAtEndFlagsC ==
    (Stepping /\ GetAtEnd(Last)) =>
        /\ Last.rv = 1
        /\ cpu.status = CPU_OK
        /\ cpu.registers[REGISTER_C] = 0
        /\ cpu.registers[Last.a1] = -1

\* C18 as amended: it succeeds with status CPU_OK and leaves -1 in reg[r];
\* register C holds 0 when r is not C, and -1 when r is C (the 0 is stored
\* first and the -1 over it).  The other registers and the stack are as
\* they were.
C18_GetAtEnd ==
    (Stepping /\ GetAtEnd(Last)) =>
        /\ Last.rv = 1
        /\ cpu.status = CPU_OK
        /\ cpu.registers = [Last.before.registers EXCEPT ![REGISTER_C] = 0, ![Last.a1] = -1]
        /\ cpu.registers[Last.a1] = -1
        /\ (Last.a1 # REGISTER_C) => (cpu.registers[REGISTER_C] = 0)
        /\ (Last.a1 = REGISTER_C) => (cpu.registers[REGISTER_C] = -1)
        /\ StackKept
        /\ stdin = << >>

\* GET C has read the byte 120 into C, then GET A has met the end of the
\* input.
C18_Witness ==
    /\ Len(hist) = 2
    /\ hist[2].meets = "opcode" /\ hist[2].op = 13 /\ hist[2].a1 = REGISTER_C
    /\ Last.before.registers[REGISTER_C] = 120
    /\ GetAtEnd(Last)
    /\ Last.a1 = REGISTER_A
    /\ cpu.registers[REGISTER_C] = 0
    /\ cpu.registers[REGISTER_A] = -1
    /\ cpu.status = CPU_OK

\* The pointer of machine c is outside 0 .. end_of_stack; it is the index
\* of a stack slot.
OutOfRange(c) == c.inst_index < 0 \/ c.inst_index > c.end_of_stack
InStack(c) == \E k \in Slots(c) : c.inst_index = c.stack_bottom - k

\* C19: a cpu_step call made with status CPU_OK and the pointer outside
\* 0 .. end_of_stack fails with CPU_INVALID_ADDRESS and changes nothing
\* else; so does every call made with the pointer on a stack slot, wherever
\* the pointer came from: no opcode is fetched from the stack.
C19_NoFetchOutside ==
    (Stepping /\ Last.before.status = CPU_OK
        /\ (OutOfRange(Last.before) \/ InStack(Last.before))) =>
        /\ Last.rv = 0
        /\ cpu.status = CPU_INVALID_ADDRESS
        /\ RegistersKept
        /\ StackKept
        /\ PointerKept
        /\ stdin = Last.stdin

\* RET has popped a return address that is the index of a stack slot, and
\* the next cpu_step call has refused to fetch there.
C19_Witness ==
    /\ Len(hist) = 2
    /\ hist[2].meets = "opcode" /\ hist[2].op = 25 /\ hist[2].rv = 1
    /\ Last.before.status = CPU_OK
    /\ InStack(Last.before)
    /\ cpu.memory[cpu.inst_index] \in Opcodes
    /\ cpu.status = CPU_INVALID_ADDRESS

\* The number of operand words the handler of `op` reads, at pointer + 1
\* and pointer + 2, before it does anything else.
OperandsRead(op) ==
    IF op \in {0, 1, 25} THEN 0
    ELSE IF op = 24 THEN 2
    ELSE OperandCount(op)

\* C20: every operand word a handler reads lies in the code/data region,
\* at an index that is at most end_of_stack and inside the buffer; no stack
\* slot and no word past the buffer is read as an operand.  Stated for the
\* machines whose buffer was all zero behind the program when it was
\* created, so that the opcode executed is one the program holds.
C20_OperandsInCode ==
    (Stepping /\ Last.meets = "opcode" /\ heap = 0) =>
        \A j \in 1 .. OperandsRead(Last.op) :
            /\ Last.before.inst_index + j <= Last.before.end_of_stack
            /\ Last.before.inst_index + j \in DOMAIN Last.before.memory
            /\ \A k \in Slots(Last.before) :
                  Last.before.inst_index + j # Last.before.stack_bottom - k

\* The instructions that store into memory (STORE, PUSH, POP, CALL, RET),
\* and for one of them recorded in e the index of the word it stores to
\* when it succeeds: the slot above the top for PUSH and CALL, the top slot
\* for POP and RET, the addressed slot for STORE.
Storing == {11, 17, 18, 24, 25}
StoredTo(e) ==
    e.before.stack_bottom -
        (IF e.op \in {17, 24} THEN e.before.stack_size
         ELSE IF e.op \in {18, 25} THEN e.before.stack_size - 1
         ELSE Addressed(e))
Stored(e) == e.meets = "opcode" /\ e.op \in Storing /\ e.rv = 1
CodeRegion(c) == {i \in DOMAIN c.memory : i <= c.end_of_stack}

\* C21: a cpu_step call, alone or within cpu_run, leaves every word of the
\* code/data region (the indices up to end_of_stack) as it was.  A PUSH,
\* POP, CALL, RET or STORE that succeeds stores to one index, strictly
\* above end_of_stack and at most the index of stack_bottom, and changes no
\* other word; every other step changes no word of memory at all.
C21_StoresInStack ==
    Stepping =>
        /\ DOMAIN cpu.memory = DOMAIN Last.before.memory
        /\ cpu.end_of_stack = Last.before.end_of_stack
        /\ cpu.stack_bottom = Last.before.stack_bottom
        /\ \A i \in CodeRegion(cpu) : cpu.memory[i] = Last.before.memory[i]
        /\ Stored(Last) =>
              /\ StoredTo(Last) > cpu.end_of_stack
              /\ StoredTo(Last) <= cpu.stack_bottom
              /\ \A i \in DOMAIN cpu.memory :
                    i # StoredTo(Last) => cpu.memory[i] = Last.before.memory[i]
        /\ ~Stored(Last) => cpu.memory = Last.before.memory

\* A PUSH has filled the lowest slot of the stack, the word next to the
\* code/data region, with a value that was not there before.
C21_Witness ==
    /\ Ran(17)
    /\ Stored(Last)
    /\ cpu.stack_capacity > 1
    /\ cpu.stack_size = cpu.stack_capacity
    /\ StoredTo(Last) = cpu.end_of_stack + 1
    /\ cpu.memory[StoredTo(Last)] # Last.before.memory[StoredTo(Last)]
    /\ cpu.memory[cpu.end_of_stack] = Last.before.memory[cpu.end_of_stack]

====
